---- MODULE Spec2Model ----
(***************************************************************************)
(* Model of bec.py: the Hilbert-space operator builder, the elementary     *)
(* operator wrappers a, b, e, c, the Hamiltonian constructors' control     *)
(* flow (guards and the order of their elementary-operator calls), and the *)
(* vacuum / Fock / EPR state constructors.                                 *)
(*                                                                         *)
(* A tensor product is kept as the ordered sequence of its factors, each   *)
(* factor a record [dim, op]: qutip.identity(d), qutip.destroy(d) or       *)
(* qutip.fock(d, 0).  Real-valued coefficients (G, g, delta, Omega) are    *)
(* kept by name only, as the weights of the terms hamiltonian_laser_field  *)
(* returns; of the model's numbers only phase decides control flow.        *)
(***************************************************************************)
EXTENDS Integers, Sequences, FiniteSets

VARIABLES model, n, call, res, prev

vars == <<model, n, call, res, prev>>

----------------------------------------------------------------------------
(* Bounds of the checked instance *)

MaxN == 3

MaxK == 2

MaxBosons == 2

----------------------------------------------------------------------------
(* Python values *)

\* k=None, the default of a, b, e, c: an index no qubit has
None == -1

\* BEC_Qubits.communication_line_levels
communication_line_levels == 2

\* BEC_Qubits.sublevels
sublevels(m) == IF m.excitation_level THEN 3 ELSE 2

\* BEC_Qubits.phi
phi(m) == m.phase

\* the frozen dataclass, restricted to the fields that decide control flow
\* and dimensions
BEC_Qubits ==
    [n_bosons : 1..MaxBosons, phase : {0, 1},
     excitation_level : BOOLEAN, communication_line : BOOLEAN]

----------------------------------------------------------------------------
(* The exceptions the module raises, one value per raise statement *)

ErrQubitIndexRequired == "NotImplementedError: n; k"
ErrOutOfRange == "ValueError: qubit number out of range"
ErrCommLineTopology == "ValueError: only one or two qubits for communication_line"
ErrNoExcitation == "ValueError: no excitation state in model"
ErrSingleLine == "NotImplementedError: only for single communication line"
ErrNoCommLine == "ValueError: no communication line in model"
ErrOnlyQubitPair == "NotImplementedError: only qubit pair"
ErrHardcodedPhi == "ValueError: hardcoded for phi = 0"
ErrHardcodedN == "ValueError: hardcoded for n = 2"
ErrWrongNumberOfQubits == "ValueError: wrong number of qubits"
ErrIncompatible == "TypeError: incompatible dimensions"

\* a returned value: the factor sequence of an operator or a state, the
\* number of elementary operators built on the way, for a state vector its
\* basis expansion, and for hamiltonian_laser_field the weighted terms of the
\* returned sum
Ok(factors, built, vec) ==
    [status |-> "ok", err |-> "", factors |-> factors, built |-> built, vec |-> vec,
     terms |-> {}]

\* a raised exception: nothing is returned
Raise(err, built) ==
    [status |-> "error", err |-> err, factors |-> <<>>, built |-> built, vec |-> {},
     terms |-> {}]

NoResult ==
    [status |-> "none", err |-> "", factors |-> <<>>, built |-> 0, vec |-> {},
     terms |-> {}]

----------------------------------------------------------------------------
(* qutip objects *)

identity(d) == [dim |-> d, op |-> "identity"]

fock0(d) == [dim |-> d, op |-> "fock0"]

\* operator(d) for the operator constructor handed to the builder
Construct(operator, d) == [dim |-> d, op |-> operator]

\* Python's  m * [x]  (the empty list when m <= 0)
Repeat(x, m) == [i \in 1..m |-> x]

----------------------------------------------------------------------------
(* _build_entire_space *)

\* Validate with the communication-line check moved before the range check
Validate_TopologyFirst(m, nq, k) ==
    IF k = None /\ nq > 1 THEN ErrQubitIndexRequired
    ELSE LET k0 == IF k = None /\ nq = 1 THEN 0 ELSE k
         IN  IF (k0 > 1 \/ nq > 2) /\ m.communication_line
             THEN ErrCommLineTopology
             ELSE IF k0 > nq - 1 THEN ErrOutOfRange
                  ELSE ""

\* Validate without the communication-line check
Validate_NoTopology(m, nq, k) ==
    IF k = None /\ nq > 1 THEN ErrQubitIndexRequired
    ELSE LET k0 == IF k = None /\ nq = 1 THEN 0 ELSE k
         IN  IF k0 > nq - 1 THEN ErrOutOfRange ELSE ""

\* lines 173-185: the first precondition violated, or "" when all pass
Validate(m, nq, k) ==
    IF k = None /\ nq > 1 THEN ErrQubitIndexRequired
    ELSE LET k0 == IF k = None /\ nq = 1 THEN 0 ELSE k
         IN  IF k0 > nq - 1 THEN ErrOutOfRange
             ELSE IF (k0 > 1 \/ nq > 2) /\ m.communication_line
                  THEN ErrCommLineTopology
                  ELSE ""

\* line 195
KindIndex(kind) == CASE kind = "a" -> 0 [] kind = "b" -> 1 [] kind = "e" -> 2

\* lines 196-200: the target qubit's block
TargetBlock(operator, m, kind) ==
    Repeat(identity(m.n_bosons + 1), KindIndex(kind))
    \o <<Construct(operator, m.n_bosons + 1)>>
    \o Repeat(identity(m.n_bosons + 1), sublevels(m) - KindIndex(kind) - 1)

\* QubitsSpaces with the target block always written to qubit 0
QubitsSpaces_IgnoreK(operator, m, nq, k, kind) ==
    [i \in 0..(nq - 1) |->
        IF kind # "c" /\ i = 0
        THEN TargetBlock(operator, m, kind)
        ELSE Repeat(identity(m.n_bosons + 1), sublevels(m))]

\* lines 188, 194-201: the per-qubit factor lists, indexed 0..n-1
QubitsSpaces(operator, m, nq, k, kind) ==
    [i \in 0..(nq - 1) |->
        IF kind # "c" /\ i = k
        THEN TargetBlock(operator, m, kind)
        ELSE Repeat(identity(m.n_bosons + 1), sublevels(m))]

\* lines 189-193, 202-203
CommunicationLineSpaces(operator, m, kind) ==
    IF kind # "c"
    THEN IF m.communication_line
         THEN <<identity(communication_line_levels)>>
         ELSE <<>>
    ELSE <<Construct(operator, communication_line_levels)>>

\* line 208: sum((communication_line_spaces + qs for qs in qubits_spaces[1:]), [])
RECURSIVE TailSum(_, _, _, _)
TailSum(qs, cl, i, nq) ==
    IF i > nq - 1 THEN <<>>
    ELSE cl \o qs[i] \o TailSum(qs, cl, i + 1, nq)

\* TensorFactors with the line spliced before every qubit, qubit 0 included
TensorFactors_LineFirst(qs, cl, nq) == TailSum(qs, cl, 0, nq)

\* lines 205-210: the sequence handed to qutip.tensor
TensorFactors(qs, cl, nq) == qs[0] \o TailSum(qs, cl, 1, nq)

build_entire_space(operator, m, nq, k, kind) ==
    LET err == Validate(m, nq, k)
        k0 == IF k = None /\ nq = 1 THEN 0 ELSE k
    IN  IF err # "" THEN Raise(err, 0)
        ELSE Ok(TensorFactors(QubitsSpaces(operator, m, nq, k0, kind),
                              CommunicationLineSpaces(operator, m, kind), nq),
                1, {})

\* _destroy
destroy_(m, nq, k, kind) == build_entire_space("destroy", m, nq, k, kind)

----------------------------------------------------------------------------
(* The elementary operator catalog *)

a(m, nq, k) == destroy_(m, nq, k, "a")

b(m, nq, k) == destroy_(m, nq, k, "b")

e(m, nq, k) ==
    IF m.excitation_level = FALSE THEN Raise(ErrNoExcitation, 0)
    ELSE destroy_(m, nq, k, "e")

c(m, nq, k) ==
    IF k # None /\ k # 0 THEN Raise(ErrSingleLine, 0)
    ELSE IF m.communication_line = FALSE THEN Raise(ErrNoCommLine, 0)
    ELSE destroy_(m, nq, k, "c")

\* dispatch of a wrapper by its name
Elementary(fn, m, nq, k) ==
    CASE fn = "a" -> a(m, nq, k)
      [] fn = "b" -> b(m, nq, k)
      [] fn = "e" -> e(m, nq, k)
      [] fn = "c" -> c(m, nq, k)

----------------------------------------------------------------------------
(* Products of tensor operators.  qutip multiplies two tensor products of   *)
(* equal dims factor by factor; a factor's value is kept as the word of     *)
(* non-identity operators multiplied into it, left to right.                *)

Dims(factors) == [i \in 1..Len(factors) |-> factors[i].dim]

Word(f) == IF f.op = "identity" THEN <<>> ELSE <<f.op>>

\* x * y, for factor sequences of equal dims
Product(x, y) == [i \in 1..Len(x) |-> [dim |-> x[i].dim, word |-> Word(x[i]) \o Word(y[i])]]

\* the positions of the factors that are not the identity
NonIdentity(factors) == {i \in 1..Len(factors) : factors[i].op # "identity"}

----------------------------------------------------------------------------
(* The Hamiltonian catalog: each constructor's guards, then its elementary  *)
(* operator calls in Python's evaluation order (operands left to right).    *)
(* A call is <<wrapper, n, k>>.                                             *)

Min(S) == CHOOSE x \in S : \A y \in S : x <= y

CallResult(m, cl) == Elementary(cl[1], m, cl[2], cl[3])

\* the composite operator a sum of products of the built operators is
Composite(factors) == [i \in 1..Len(factors) |-> [dim |-> factors[i].dim, op |-> "composite"]]

\* evaluate the calls in order; the first exception propagates
Evaluate(m, calls) ==
    LET bad == {i \in 1..Len(calls) : CallResult(m, calls[i]).status = "error"}
    IN  IF bad = {}
        THEN Ok(Composite(CallResult(m, calls[1]).factors), Len(calls), {})
        ELSE Raise(CallResult(m, calls[Min(bad)]).err, Min(bad) - 1)

\* sz (and sx, sy): a_ = a(model, n, k); b_ = b(model, n, k)
sz(nq, k) == << <<"a", nq, k>>, <<"b", nq, k>> >>

\* b(k).dag() * b(k)
bb(nq, k) == << <<"b", nq, k>>, <<"b", nq, k>> >>

\* e(k).dag() * e(k)
ee(nq, k) == << <<"e", nq, k>>, <<"e", nq, k>> >>

\* c(0).dag() * c(0)
cc(nq) == << <<"c", nq, 0>>, <<"c", nq, 0>> >>

E(nq, k) == << <<"e", nq, k>> >>

B(nq, k) == << <<"b", nq, k>> >>

C(nq) == << <<"c", nq, 0>> >>

h_eff_total(m, nq) ==
    IF nq # 2 THEN Raise(ErrOnlyQubitPair, 0)
    ELSE Evaluate(m, sz(nq, 0) \o sz(nq, 1) \o sz(nq, 0) \o sz(nq, 1))

h_eff_eq9(m, nq) ==
    IF nq # 2 THEN Raise(ErrOnlyQubitPair, 0)
    ELSE Evaluate(m, sz(nq, 0) \o sz(nq, 1) \o sz(nq, 0) \o sz(nq, 0)
                     \o sz(nq, 1) \o sz(nq, 1) \o sz(nq, 0) \o sz(nq, 1))

h_eff_edition1(m, nq) ==
    IF nq # 2 THEN Raise(ErrOnlyQubitPair, 0)
    ELSE Evaluate(m, B(nq, 0) \o B(nq, 1) \o B(nq, 1) \o B(nq, 0)
                     \o bb(nq, 0) \o bb(nq, 1))

h_eff_edition3(m, nq) ==
    IF nq # 2 THEN Raise(ErrOnlyQubitPair, 0)
    ELSE Evaluate(m, bb(nq, 0) \o bb(nq, 1) \o bb(nq, 0) \o bb(2, 1))

hamiltonian_eff(m, nq, zeeman, quadratic) ==
    IF nq # 2 THEN Raise(ErrOnlyQubitPair, 0)
    ELSE Evaluate(m, sz(nq, 0) \o sz(nq, 1)
                     \o (IF quadratic
                         THEN sz(nq, 0) \o sz(nq, 0) \o sz(nq, 1) \o sz(nq, 1)
                         ELSE <<>>)
                     \o (IF zeeman THEN sz(nq, 0) \o sz(nq, 1) ELSE <<>>))

hamiltonian_ad(m, nq) ==
    Evaluate(m, bb(nq, 0) \o bb(nq, 1) \o bb(nq, 0) \o bb(nq, 1)
                \o bb(nq, 0) \o bb(nq, 1))

hzz(m, nq) ==
    IF nq # 2 THEN Raise(ErrOnlyQubitPair, 0)
    ELSE Evaluate(m, sz(nq, 0) \o sz(nq, 1))

\* h_int_approx with the qubit-count check before the phase check
h_int_approx_NFirst(m, nq) ==
    IF nq # 2 THEN Raise(ErrHardcodedN, 0)
    ELSE IF phi(m) # 0 THEN Raise(ErrHardcodedPhi, 0)
    ELSE Evaluate(m, B(2, 0) \o E(2, 0) \o B(2, 1) \o E(2, 1)
                     \o B(2, 0) \o E(2, 0) \o B(2, 1) \o E(2, 1)
                     \o ee(2, 0) \o ee(2, 1) \o cc(2))

h_int_approx(m, nq) ==
    IF phi(m) # 0 THEN Raise(ErrHardcodedPhi, 0)
    ELSE IF nq # 2 THEN Raise(ErrHardcodedN, 0)
    ELSE Evaluate(m, B(2, 0) \o E(2, 0) \o B(2, 1) \o E(2, 1)
                     \o B(2, 0) \o E(2, 0) \o B(2, 1) \o E(2, 1)
                     \o ee(2, 0) \o ee(2, 1) \o cc(2))

h_int(m, nq) ==
    IF nq # 2 THEN Raise(ErrOnlyQubitPair, 0)
    ELSE Evaluate(m, E(nq, 0) \o B(nq, 0) \o C(nq)
                     \o E(nq, 1) \o B(nq, 1) \o C(nq)
                     \o C(nq) \o B(nq, 0) \o E(nq, 0)
                     \o C(nq) \o B(nq, 1) \o E(nq, 1)
                     \o ee(nq, 0) \o ee(nq, 1) \o cc(nq))

hamiltonian_coupling(m, nq) ==
    Evaluate(m, cc(nq)
                \o E(nq, 0) \o B(nq, 0) \o C(nq)
                \o E(nq, 1) \o B(nq, 1) \o C(nq)
                \o B(nq, 0) \o E(nq, 0) \o C(nq)
                \o B(nq, 1) \o E(nq, 1) \o C(nq))

\* x(k1).dag() * y(k2)
DagTimes(x, k1, y, k2) == [dag |-> <<x, k1>>, op |-> <<y, k2>>]

\* lines 490-495: model.g * (e0' b0 + e1' b1 + b0' e0 + b1' e1), a term being
\* the model property that weights it and the products it sums
CouplingTerm ==
    [coef |-> "g",
     products |-> {DagTimes("e", 0, "b", 0), DagTimes("e", 1, "b", 1),
                   DagTimes("b", 0, "e", 0), DagTimes("b", 1, "e", 1)}]

\* lines 496-499: +model.delta_l * (e0' e0 + e1' e1), an expression statement
\* of its own placed after the return statement
DetuningTerm ==
    [coef |-> "delta_l",
     products |-> {DagTimes("e", 0, "e", 0), DagTimes("e", 1, "e", 1)}]

\* what the return statement of line 490 returns: the expression that ends
\* with the parenthesis closed on line 495
LaserFieldTerms == {CouplingTerm}

\* the return statement of lines 490-495; lines 496-499 follow it and are
\* never executed
hamiltonian_laser_field(m, nq) ==
    LET r == Evaluate(m, E(nq, 0) \o B(nq, 0) \o E(nq, 1) \o B(nq, 1)
                         \o B(nq, 0) \o E(nq, 0) \o B(nq, 1) \o E(nq, 1))
    IN  IF r.status = "ok" THEN [r EXCEPT !.terms = LaserFieldTerms] ELSE r

----------------------------------------------------------------------------
(* The state catalog.  A state vector is the set of its basis terms, each   *)
(* [occ, w2n, w2d]: the occupation number of every factor and the squared   *)
(* amplitude w2n / w2d (every amplitude built here is a non-negative real). *)
(* An operator built from creation operators is modelled by its action on   *)
(* a vector.                                                                *)

RECURSIVE factorial(_)
factorial(x) == IF x <= 0 THEN 1 ELSE x * factorial(x - 1)

vacuum_state(m, nq) ==
    LET factors == Repeat(fock0(m.n_bosons + 1), sublevels(m))
                   \o (IF m.communication_line
                       THEN <<fock0(communication_line_levels)>>
                       ELSE <<>>)
                   \o Repeat(fock0(m.n_bosons + 1), (nq - 1) * sublevels(m))
    IN  Ok(factors, 0, {[occ |-> [i \in 1..Len(factors) |-> 0], w2n |-> 1, w2d |-> 1]})

\* qutip.destroy(dim).dag() on factor p:  |j> -> sqrt(j + 1) |j + 1>,  0 at the top
CreateAt(vec, p, dim) ==
    {[occ |-> [t.occ EXCEPT ![p] = @ + 1], w2n |-> t.w2n * (t.occ[p] + 1), w2d |-> t.w2d] :
        t \in {u \in vec : u.occ[p] + 1 < dim}}

RECURSIVE CreatePowerAt(_, _, _, _)
CreatePowerAt(vec, p, dim, power) ==
    IF power <= 0 THEN vec
    ELSE CreatePowerAt(CreateAt(vec, p, dim), p, dim, power - 1)

\* (op.dag() ** power) * vec for an operator built by a or b: the creation
\* operator acts on the one factor that is not the identity (on none, when
\* the built operator is the identity)
RECURSIVE DagPower(_, _, _, _)
DagPower(factors, positions, power, vec) ==
    IF positions = {} THEN vec
    ELSE LET p == Min(positions)
         IN  DagPower(factors, positions \ {p}, power,
                      CreatePowerAt(vec, p, factors[p].dim, power))

\* scalar * vec, the scalar given by its square num / den
Scale(vec, num, den) ==
    {[occ |-> t.occ, w2n |-> t.w2n * num, w2d |-> t.w2d * den] : t \in vec}

\* fock_state_constructor(model, n, i, k) * v
fock_state_constructor(m, nq, i, k, v) ==
    LET a_ == a(m, nq, i)
        b_ == b(m, nq, i)
        norm2 == factorial(k) * factorial(m.n_bosons - k)
    IN  IF v.status = "error" THEN v
        ELSE IF a_.status = "error" THEN Raise(a_.err, v.built)
        ELSE IF b_.status = "error" THEN Raise(b_.err, v.built + 1)
        ELSE IF Dims(a_.factors) # Dims(v.factors) THEN Raise(ErrIncompatible, v.built + 2)
        ELSE Ok(v.factors, v.built + 2,
                Scale(DagPower(a_.factors, NonIdentity(a_.factors), k,
                               DagPower(b_.factors, NonIdentity(b_.factors),
                                        m.n_bosons - k, v.vec)),
                      1, norm2))

\* sum over k = lo..n_bosons of
\*   fock_state_constructor(i=0, k) * fock_state_constructor(i=1, k) * v
\* (the terms have disjoint supports, so the sum of vectors is their union)
RECURSIVE EprSum(_, _, _, _)
EprSum(m, nq, lo, v) ==
    IF lo > m.n_bosons THEN Ok(v.factors, v.built, {})
    ELSE LET t == fock_state_constructor(m, nq, 0, lo,
                      fock_state_constructor(m, nq, 1, lo, v))
             rest == EprSum(m, nq, lo + 1, v)
         IN  IF t.status = "error" THEN t
             ELSE IF rest.status = "error" THEN rest
             ELSE Ok(v.factors, t.built + rest.built - v.built, t.vec \cup rest.vec)

\* epr_plus_state_constructor normalised by sqrt(n_bosons)
epr_plus_state_constructor_NormBosons(m, nq, v) ==
    IF nq # 2 THEN Raise(ErrWrongNumberOfQubits, 0)
    ELSE LET s == EprSum(m, nq, 0, v)
         IN  IF s.status = "error" THEN s
             ELSE Ok(s.factors, s.built, Scale(s.vec, 1, m.n_bosons))

\* epr_plus_state_constructor(model, n) * v
epr_plus_state_constructor(m, nq, v) ==
    IF nq # 2 THEN Raise(ErrWrongNumberOfQubits, 0)
    ELSE LET s == EprSum(m, nq, 0, v)
         IN  IF s.status = "error" THEN s
             ELSE Ok(s.factors, s.built, Scale(s.vec, 1, m.n_bosons + 1))

----------------------------------------------------------------------------
(* The state machine: a caller holds one model and one qubit count n and    *)
(* calls the module's functions in any order.  call is the last call made,  *)
(* res what it returned or raised, prev the last operator a, b or e         *)
(* returned before that call.                                               *)

Ks == {None} \cup 0..MaxK

Kinds == {"a", "b", "e", "c"}

Request(fn, k, kind, x) == [fn |-> fn, k |-> k, kind |-> kind, x |-> x]

NoPrev == [fn |-> "", k |-> None, factors |-> <<>>]

\* the operator res becomes the earlier operator of the next call
Shift ==
    IF call.fn \in {"a", "b", "e"} /\ res.status = "ok"
    THEN [fn |-> call.fn, k |-> call.k, factors |-> res.factors]
    ELSE prev

Return(rq, r) ==
    /\ call' = rq
    /\ res' = r
    /\ prev' = Shift
    /\ UNCHANGED <<model, n>>

Init ==
    /\ model \in BEC_Qubits
    /\ n \in 1..MaxN
    /\ call = Request("", None, "", 0)
    /\ res = NoResult
    /\ prev = NoPrev

CallA == \E k \in Ks : Return(Request("a", k, "a", 0), a(model, n, k))

CallB == \E k \in Ks : Return(Request("b", k, "b", 0), b(model, n, k))

CallE == \E k \in Ks : Return(Request("e", k, "e", 0), e(model, n, k))

CallC == \E k \in Ks : Return(Request("c", k, "c", 0), c(model, n, k))

CallDestroy ==
    \E k \in Ks, kind \in Kinds :
        Return(Request("_destroy", k, kind, 0), destroy_(model, n, k, kind))

CallHEffTotal == Return(Request("h_eff_total", None, "", 0), h_eff_total(model, n))

CallHEffEq9 == Return(Request("h_eff_eq9", None, "", 0), h_eff_eq9(model, n))

CallHEffEdition1 ==
    Return(Request("h_eff_edition1", None, "", 0), h_eff_edition1(model, n))

CallHEffEdition3 ==
    Return(Request("h_eff_edition3", None, "", 0), h_eff_edition3(model, n))

\* x numbers the flags: 2 * zeeman + quadratic
CallHamiltonianEff ==
    \E zeeman \in BOOLEAN, quadratic \in BOOLEAN :
        Return(Request("hamiltonian_eff", None, "",
                       (IF zeeman THEN 2 ELSE 0) + (IF quadratic THEN 1 ELSE 0)),
               hamiltonian_eff(model, n, zeeman, quadratic))

CallHamiltonianAd ==
    Return(Request("hamiltonian_ad", None, "", 0), hamiltonian_ad(model, n))

CallHzz == Return(Request("hzz", None, "", 0), hzz(model, n))

CallHIntApprox == Return(Request("h_int_approx", None, "", 0), h_int_approx(model, n))

CallHInt == Return(Request("h_int", None, "", 0), h_int(model, n))

CallHamiltonianCoupling ==
    Return(Request("hamiltonian_coupling", None, "", 0), hamiltonian_coupling(model, n))

CallHamiltonianLaserField ==
    Return(Request("hamiltonian_laser_field", None, "", 0),
           hamiltonian_laser_field(model, n))

CallVacuumState == Return(Request("vacuum_state", None, "", 0), vacuum_state(model, n))

\* fock_state_constructor(model, n, i, x) * vacuum_state(model, n)
CallFockState ==
    \E i \in 0..MaxK, x \in 0..model.n_bosons :
        Return(Request("fock_state_constructor", i, "", x),
               fock_state_constructor(model, n, i, x, vacuum_state(model, n)))

\* epr_plus_state_constructor(model, n) * vacuum_state(model, n)
CallEprPlus ==
    Return(Request("epr_plus_state_constructor", None, "", 0),
           epr_plus_state_constructor(model, n, vacuum_state(model, n)))

Next ==
    \/ CallDestroy
    \/ CallA
    \/ CallB
    \/ CallE
    \/ CallC
    \/ CallHEffTotal
    \/ CallHEffEq9
    \/ CallHEffEdition1
    \/ CallHEffEdition3
    \/ CallHamiltonianEff
    \/ CallHamiltonianAd
    \/ CallHzz
    \/ CallHIntApprox
    \/ CallHInt
    \/ CallHamiltonianCoupling
    \/ CallHamiltonianLaserField
    \/ CallVacuumState
    \/ CallFockState
    \/ CallEprPlus

Spec == Init /\ [][Next]_vars

----------------------------------------------------------------------------
(* Properties *)

Wrappers == {"a", "b", "e", "c"}

\* the qubit index the builder works with
EffK == IF call.k = None /\ n = 1 THEN 0 ELSE call.k

\* the sublevel index the specification gives each channel
SublevelOf(kind) == IF kind = "a" THEN 0 ELSE IF kind = "b" THEN 1 ELSE 2

LineWidth == IF model.communication_line THEN 1 ELSE 0

\* first position (from 1) of qubit q's block when every earlier qubit
\* contributes its block and every qubit after qubit 0 is preceded by the line
BlockStart(q) == q * (sublevels(model) + LineWidth) + 1

LinePositions == {BlockStart(q) - 1 : q \in {i \in 1..(n - 1) : model.communication_line}}

\* C1: every operator a, b, e or c returns has the factor sequence
\* qubit 0's block, then per qubit 1..n-1 the communication-line factor
\* (dimension 2, only with communication_line) and that qubit's block; each
\* block has sublevels factors of dimension n_bosons + 1, the line factor
\* appears n - 1 times and never first, and for a/b/e the constructed
\* operator is at sublevel index a->0, b->1, e->2 of qubit k's block.
C1_FactorOrdering ==
    (call.fn \in Wrappers /\ res.status = "ok") =>
        /\ Len(res.factors) = n * sublevels(model) + (n - 1) * LineWidth
        /\ 1 \notin LinePositions
        /\ Cardinality(LinePositions) = (n - 1) * LineWidth
        /\ \A p \in 1..Len(res.factors) :
              res.factors[p].dim = IF p \in LinePositions
                                   THEN 2
                                   ELSE model.n_bosons + 1
        /\ call.fn # "c" =>
              NonIdentity(res.factors) = {BlockStart(EffK) + SublevelOf(call.fn)}
        /\ \A p \in NonIdentity(res.factors) : res.factors[p].op = "destroy"
        /\ call.fn = "c" => NonIdentity(res.factors) \subseteq LinePositions

\* C1 witness: e built for qubit 1 of two qubits joined by the line
C1_Witness ==
    /\ call.fn = "e" /\ call.k = 1 /\ n = 2
    /\ model.communication_line /\ model.excitation_level
    /\ res.status = "ok"
    /\ Len(res.factors) = 7

\* C2: the vacuum state for (model, n) has the factors, in number, dimension
\* and order, of every operator a or b built for (model, n).
C2_VacuumMatchesBuilder ==
    (call.fn = "vacuum_state" /\ prev.fn \in {"a", "b"}) =>
        Dims(res.factors) = Dims(prev.factors)

\* C3: operators of kind a, b, e built for different qubits of the same n >= 2
\* have their single non-identity factors at different positions of factor
\* sequences of equal dimensions, and their products in both orders are equal.
C3_DifferentQubitsCommute ==
    (/\ call.fn \in {"a", "b", "e"} /\ res.status = "ok"
     /\ prev.fn \in {"a", "b", "e"}
     /\ n >= 2 /\ prev.k # call.k) =>
        /\ Dims(res.factors) = Dims(prev.factors)
        /\ Cardinality(NonIdentity(res.factors)) = 1
        /\ Cardinality(NonIdentity(prev.factors)) = 1
        /\ NonIdentity(res.factors) \cap NonIdentity(prev.factors) = {}
        /\ Product(res.factors, prev.factors) = Product(prev.factors, res.factors)

\* C3 witness: b for qubit 1 built after e for qubit 0, two qubits with the line
C3_Witness ==
    /\ call.fn = "b" /\ call.k = 1 /\ res.status = "ok"
    /\ prev.fn = "e" /\ prev.k = 0
    /\ n = 2 /\ model.communication_line

\* the calls that reach _build_entire_space
ReachesBuilder ==
    \/ call.fn \in {"a", "b", "_destroy"}
    \/ call.fn = "e" /\ model.excitation_level
    \/ call.fn = "c" /\ call.k \in {None, 0} /\ model.communication_line

BuilderErrors == {ErrQubitIndexRequired, ErrOutOfRange, ErrCommLineTopology}

\* C4: the builder reports the first violated precondition, in the order
\* (1) k unset with n > 1, (2) k > n - 1, (3) communication_line with k > 1
\* or n > 2; k unset with n = 1 is k = 0; a failure returns no operator.
C4_ValidationOrder ==
    ReachesBuilder =>
        /\ IF call.k = None /\ n > 1
           THEN res.status = "error" /\ res.err = ErrQubitIndexRequired
           ELSE IF EffK > n - 1
           THEN res.status = "error" /\ res.err = ErrOutOfRange
           ELSE IF model.communication_line /\ (EffK > 1 \/ n > 2)
           THEN res.status = "error" /\ res.err = ErrCommLineTopology
           ELSE res.err \notin BuilderErrors
        /\ res.status = "error" => res.factors = <<>>
        /\ (call.k = None /\ n = 1 /\ prev.fn = call.fn /\ prev.k = 0) =>
              res.status = "ok" /\ res.factors = prev.factors

\* C4 witness: two qubits, line set, index 2 violates (2) and (3): out of
\* range is reported, not the topology failure
C4_Witness ==
    /\ call.fn = "a" /\ call.k = 2 /\ n = 2 /\ model.communication_line
    /\ res.err = ErrOutOfRange

\* C5: a channel-e request on a model without excitation_level, and a
\* communication-line request on a model without communication_line, end in
\* the unsupported-channel error for every n and k, through e and c and
\* through _destroy with kind e or c.
C5_UnsupportedChannel ==
    (\/ call.fn \in {"e", "_destroy"} /\ call.kind = "e" /\ ~model.excitation_level
     \/ call.fn \in {"c", "_destroy"} /\ call.kind = "c" /\ ~model.communication_line) =>
        /\ res.status = "error"
        /\ res.err = IF call.kind = "e" THEN ErrNoExcitation ELSE ErrNoCommLine

ElementaryCalls == Wrappers \cup {"_destroy"}

\* C6 as stated: with communication_line set, a request for qubit index 2
\* raises the unsupported-topology error for every n and every kind.
C6_IndexTwoIsTopologyError ==
    (model.communication_line /\ call.fn \in ElementaryCalls /\ call.k = 2) =>
        res.status = "error" /\ res.err = ErrCommLineTopology

\* C6 amended: with communication_line set, a request for qubit index 2 is
\* always rejected; the failure is the topology error when n >= 3 and the
\* request reaches the builder, the out-of-range error when n <= 2, c's own
\* single-line error through c, and the unsupported-channel error through e
\* on a model without excitation_level.
C6_IndexTwoRejected ==
    (model.communication_line /\ call.fn \in ElementaryCalls /\ call.k = 2) =>
        /\ res.status = "error"
        /\ res.err = IF call.fn = "c" THEN ErrSingleLine
                     ELSE IF call.fn = "e" /\ ~model.excitation_level THEN ErrNoExcitation
                     ELSE IF n <= 2 THEN ErrOutOfRange
                     ELSE ErrCommLineTopology

\* C6 witness: index 2 of three qubits with the line is the topology error
C6_Witness ==
    /\ model.communication_line /\ call.fn = "b" /\ call.k = 2 /\ n = 3
    /\ res.err = ErrCommLineTopology

PairHamiltonians ==
    {"h_eff_total", "h_eff_eq9", "h_eff_edition1", "h_eff_edition3",
     "hamiltonian_eff", "hamiltonian_ad", "hzz", "h_int",
     "hamiltonian_coupling", "hamiltonian_laser_field"}

\* C7: every Hamiltonian constructor called with n != 2 raises the
\* unsupported-qubit-count error and returns no operator.
C7_OnlyQubitPair ==
    (call.fn \in PairHamiltonians /\ n # 2) =>
        res.status = "error" /\ res.err = ErrOnlyQubitPair

\* the product of the dimensions of the factors
RECURSIVE Dimension(_)
Dimension(factors) ==
    IF factors = <<>> THEN 1 ELSE Head(factors).dim * Dimension(Tail(factors))

\* epr_plus for two qubits of one boson each, two sublevels, no line
EprCase ==
    /\ call.fn = "epr_plus_state_constructor" /\ n = 2
    /\ model.n_bosons = 1 /\ ~model.excitation_level /\ ~model.communication_line

\* C8 as stated: the EPR state of the two-level, one-boson pair has two
\* terms of squared amplitude 1/2 that pair qubit 0 holding k bosons in
\* sublevel a with qubit 1 holding n_bosons - k, and has dimension 4.
C8_EprOppositeDim4 ==
    EprCase =>
        /\ res.status = "ok"
        /\ Cardinality(res.vec) = 2
        /\ \A t \in res.vec : 2 * t.w2n = t.w2d
        /\ \A t \in res.vec : t.occ[3] = model.n_bosons - t.occ[1]
        /\ Dimension(res.factors) = 4

\* C8 amended: the EPR state of the two-level, one-boson pair has two
\* terms of squared amplitude 1/2, in the factor order (a0, b0, a1, b1)
\* |0101> and |1010>: both qubits hold the same number k of bosons in
\* sublevel a (and n_bosons - k in b); the vector has 4 factors of
\* dimension 2, dimension 16.
C8_EprSameDim16 ==
    EprCase =>
        /\ res.status = "ok"
        /\ {t.occ : t \in res.vec} = {<<0, 1, 0, 1>>, <<1, 0, 1, 0>>}
        /\ Cardinality(res.vec) = 2
        /\ \A t \in res.vec : 2 * t.w2n = t.w2d
        /\ Dims(res.factors) = <<2, 2, 2, 2>>
        /\ Dimension(res.factors) = 16

\* C8 witness: the EPR state was built and holds the term |1010>
C8_Witness ==
    /\ EprCase /\ res.status = "ok"
    /\ \E t \in res.vec : t.occ = <<1, 0, 1, 0>>

\* C9: h_int_approx raises the fixed-parameter error for phase != 0 or
\* n != 2 before any elementary operator is built, the phase check first;
\* an unsupported-channel error is reported only when both checks pass.
C9_HIntApproxGuards ==
    call.fn = "h_int_approx" =>
        /\ phi(model) # 0 =>
              res.status = "error" /\ res.err = ErrHardcodedPhi /\ res.built = 0
        /\ (phi(model) = 0 /\ n # 2) =>
              res.status = "error" /\ res.err = ErrHardcodedN /\ res.built = 0
        /\ res.err \in {ErrNoExcitation, ErrNoCommLine} => (phi(model) = 0 /\ n = 2)

\* C9 witness: both parameters are off and the phase failure is reported
C9_Witness ==
    /\ call.fn = "h_int_approx" /\ phi(model) # 0 /\ n = 3
    /\ res.err = ErrHardcodedPhi

\* C10: every operator a, b, e or c returns has exactly one non-identity
\* factor, the annihilation operator; c never drops it.
C10_OneAnnihilationFactor ==
    (call.fn \in Wrappers /\ res.status = "ok") =>
        /\ Cardinality(NonIdentity(res.factors)) = 1
        /\ \A p \in NonIdentity(res.factors) :
              /\ res.factors[p].op = "destroy"
              /\ call.fn = "c" => res.factors[p].dim = communication_line_levels

\* C11: hamiltonian_laser_field(model, 2) returns the sum of both terms of
\* its body: the g-weighted coupling term over k = 0, 1 and the
\* delta_l-weighted excited-population term, so the result depends on delta.
C11_LaserFieldBothTerms ==
    (call.fn = "hamiltonian_laser_field" /\ n = 2 /\ res.status = "ok") =>
        /\ CouplingTerm \in res.terms
        /\ \E t \in res.terms :
              /\ t.coef = "delta_l"
              /\ t.products = {DagTimes("e", 0, "e", 0), DagTimes("e", 1, "e", 1)}

====
